---------------------------- MODULE Spec2Model ----------------------------
(***************************************************************************)
(* Model of package ai (yxlib/ai): the finite-state machine of fsm.go      *)
(* (the revision with Start/Stop and the ordered transition list) and the  *)
(* behavior tree nodes (BaseBehaviorNode, ControlNode, SequenceNode,       *)
(* SelectNode, ParallelNode, BehaviorTree) with the agent's leaf node.     *)
(*                                                                         *)
(* Callbacks (FSMState hooks, FSMAction.DoAction, leaf handlers) are       *)
(* external code: the model records each invocation in `calls` and draws   *)
(* every callback result nondeterministically.                             *)
(***************************************************************************)
EXTENDS Naturals, Sequences, FiniteSets

\* ------------------------------------------------------------------ bounds
\* Largest number of transition records kept in the transition list.
MaxTrans == 2
\* Largest depth of the history stack.
MaxHist == 2

\* Largest number of nodes a tree holds besides its root.
MaxNodes == 2
\* Largest number of UpdateStep calls made on the nodes of a tree.
MaxSteps == 1

\* ------------------------------------------------------------ input values
\* The empty string is Go's "" (len(name) == 0).
StateNames == {"A", "B"}
Events == {"e"}
ActionNames == {"g"}
\* Variadic param of Trigger, passed through to DoAction.
Params == {"p"}
\* dt of Update, passed through to OnUpdate.
Dts == {16}
\* Objects implementing FSMState / FSMAction; Nil is the nil interface value.
Nil == "nil"
\* Each state name is registered with its own state object.
StateObjOf == [n \in StateNames |-> IF n = "A" THEN "sA" ELSE "sB"]
ActionObjs == {"a1"}

\* --------------------------------------------------------- behavior nodes
BNODE_STAT_NOT_EXECUTE == 0
BNODE_STAT_EXECUTING == 1
BNODE_STAT_SUCC == 2
BNODE_STAT_FAIL == 3
BNodeStates == {BNODE_STAT_NOT_EXECUTE, BNODE_STAT_EXECUTING, BNODE_STAT_SUCC, BNODE_STAT_FAIL}

BNODE_TYPE_ACTION == 0
BNODE_TYPE_SEQUENCE == 1
BNODE_TYPE_SELECT == 2
BNODE_TYPE_PARALLEL == 3
BNodeTypes == {BNODE_TYPE_ACTION, BNODE_TYPE_SEQUENCE, BNODE_TYPE_SELECT, BNODE_TYPE_PARALLEL}

BTREE_ROOT_NODE_ID == 1
\* Node ids; a node is identified by its id (ids are unique within a tree).
NodeIds == BTREE_ROOT_NODE_ID..(BTREE_ROOT_NODE_ID + MaxNodes)

\* ------------------------------------------------------------------ errors
NoErr == "nil"
ErrNameLenZero == "len of name is 0"
ErrStatNil == "state is nil"
ErrActNil == "action is nil"
ErrTranNotExist == "transition not exist"
ErrEvtEmpty == "event is empty"
ErrNoFirstStat == "no first state"
ErrNoOldStat == "no old state"
ErrFromStatNotExist == "from state not exist"
ErrToStatNotExist == "to state not exist"

VARIABLES
    \* struct FSM
    state,              \* f.state
    oldStates,          \* f.oldStates
    mapName2State,      \* f.mapName2State: name -> FSMState object
    mapName2Action,     \* f.mapName2Action: name -> FSMAction object
    transitions,        \* f.transitions: sequence of FSMTransition
    \* the last call, as its caller and the callbacks observe it
    last,               \* [op: the method called (Register for every Add* and
                        \*  Remove* but AddTransition), arg: Trigger's evt
                        \*  or Start's firstState,
                        \*  param: Trigger's param, succ: what the gating
                        \*  action answers when Trigger invokes it,
                        \*  tran: the arguments of AddTransition, in its calls]
    pre,                \* [state, oldStates] as they were when it was called
    err,                \* its returned error (NoErr when it returns none)
    calls,              \* the callbacks it invoked, in order
    seen,               \* what each of them found in the machine when it was
                        \*  invoked: [state: GetCurState(), oldStates]
    \* struct BehaviorTree
    nodes,              \* the nodes reachable from t.rootNode, by id:
                        \*  [nodeType, state, step, subNodes (child ids)]
    ticked,             \* the last tree call: [op, log: the ids of the nodes
                        \*  whose Execute was invoked, in call order, turn:
                        \*  the parity of the ticks since the last edit]
    \* struct BaseAgent (a.fsm is the FSM above)
    mapState2BTree,     \* a.mapState2BTree: state name -> tree or Nil
    mapState2EnterFunc, \* a.mapState2EnterFunc: state name -> func or Nil
    mapState2UpdateFunc,\* a.mapState2UpdateFunc: state name -> func or Nil
    mapState2ExitFunc,  \* a.mapState2ExitFunc: state name -> func or Nil
    updated             \* the last agent call: [op, funcs: the dt of each call
                        \*  of an update function, execs: the number of calls
                        \*  of btree.Execute, panic: whether it panicked]

fsmVars == <<state, oldStates, mapName2State, mapName2Action, transitions>>
fsmAll == <<state, oldStates, mapName2State, mapName2Action, transitions,
            last, pre, err, calls, seen>>
btVars == <<nodes, ticked>>
agentVars == <<mapState2BTree, mapState2EnterFunc, mapState2UpdateFunc,
               mapState2ExitFunc, updated>>
vars == <<state, oldStates, mapName2State, mapName2Action, transitions,
          last, pre, err, calls, seen, nodes, ticked,
          mapState2BTree, mapState2EnterFunc, mapState2UpdateFunc,
          mapState2ExitFunc, updated>>

\* ---------------------------------------------------------------- callbacks
\* One invocation of a state hook: obj.fn(arg) or obj.OnUpdate(dt).
HookCall(obj, fn, arg) ==
    [obj |-> obj, fn |-> fn, arg |-> arg, dt |-> 0, param |-> "", ret |-> TRUE]

UpdateCall(obj, dt) ==
    [obj |-> obj, fn |-> "OnUpdate", arg |-> "", dt |-> dt, param |-> "", ret |-> TRUE]

\* One invocation of an action: obj.DoAction(evt, param) returning succ.
ActionCall(obj, evt, param, succ) ==
    [obj |-> obj, fn |-> "DoAction", arg |-> evt, dt |-> 0, param |-> param, ret |-> succ]

NewFSMTransitionSwapped(from, evt, to, action) ==
    [From |-> to, Event |-> evt, To |-> from, Action |-> action]

NewFSMTransition(from, evt, to, action) ==
    [From |-> from, Event |-> evt, To |-> to, Action |-> action]

\* last.op of the registration methods whose arguments are not recorded.
Register == "Register"

\* The call being made: recorded by every method before it does anything.
Called(op, arg, param, succ) ==
    /\ last' = [op |-> op, arg |-> arg, param |-> param, succ |-> succ]
    /\ pre' = [state |-> state, oldStates |-> oldStates]
    /\ UNCHANGED <<btVars, agentVars>>

\* A return that invoked no callback and changed nothing.
Return(e) ==
    /\ err' = e
    /\ calls' = <<>>
    /\ UNCHANGED fsmVars

\* ------------------------------------------------------------------ helpers
\* The callbacks cs were invoked after the method assigned f.state and
\* f.oldStates: they find the new values.
AfterCommit(cs) ==
    [i \in 1..Len(cs) |-> [state |-> state', oldStates |-> oldStates']]

\* (mutation) the hooks are invoked once the method has assigned its fields
CommitFirst(cs) ==
    [i \in 1..Len(cs) |-> [state |-> state', oldStates |-> oldStates']]

\* The callbacks cs were invoked before the method assigned f.state and
\* f.oldStates, or by a method that assigns neither: they find the old values.
BeforeCommit(cs) ==
    [i \in 1..Len(cs) |-> [state |-> state, oldStates |-> oldStates]]

\* m[name] = obj, keeping the other entries.
MapPut(m, name, obj) ==
    [n \in DOMAIN m \cup {name} |-> IF n = name THEN obj ELSE m[n]]

\* delete(m, name)
MapDelete(m, name) ==
    [n \in DOMAIN m \ {name} |-> m[n]]

EmptyMap == [n \in {} |-> Nil]

\* append(s[:i], s[i+1:]...) for a 1-based index i.
RemoveAt(s, i) ==
    [k \in 1..(Len(s) - 1) |-> IF k < i THEN s[k] ELSE s[k + 1]]

MinOf(S) == CHOOSE i \in S : \A j \in S : i <= j
MaxOf(S) == CHOOSE i \in S : \A j \in S : i >= j

\* ---------------------------------------------------------------- lookups
\* (mutation) the lookup reports every name as found
GetStateAny(name) ==
    [stat |-> IF name \in DOMAIN mapName2State THEN mapName2State[name] ELSE Nil,
     ok |-> TRUE]

\* stat, ok := f.mapName2State[name]
GetState(name) ==
    IF name \in DOMAIN mapName2State
    THEN [stat |-> mapName2State[name], ok |-> TRUE]
    ELSE [stat |-> Nil, ok |-> FALSE]

GetAction(name) ==
    IF name \in DOMAIN mapName2Action
    THEN [act |-> mapName2Action[name], ok |-> TRUE]
    ELSE [act |-> Nil, ok |-> FALSE]

\* Indices of the records with tran.From == from && tran.Event == evt.
MatchIdx(from, evt) ==
    {i \in 1..Len(transitions) :
        transitions[i].From = from /\ transitions[i].Event = evt}

NoTransition == [tran |-> NewFSMTransition("", "", "", ""), ok |-> FALSE]

\* (mutation) the loop keeps going and returns the last record that matches
GetTransitionLastMatch(from, evt) ==
    IF from = "" \/ evt = "" \/ MatchIdx(from, evt) = {}
    THEN NoTransition
    ELSE [tran |-> transitions[MaxOf(MatchIdx(from, evt))], ok |-> TRUE]

\* (mutation) the loop compares the event only
GetTransitionByEvent(from, evt) ==
    LET idx == {i \in 1..Len(transitions) : transitions[i].Event = evt}
    IN IF from = "" \/ evt = "" \/ idx = {}
       THEN NoTransition
       ELSE [tran |-> transitions[MinOf(idx)], ok |-> TRUE]

\* The range loop returns the first record that matches.
GetTransition(from, evt) ==
    IF from = "" \/ evt = "" \/ MatchIdx(from, evt) = {}
    THEN NoTransition
    ELSE [tran |-> transitions[MinOf(MatchIdx(from, evt))], ok |-> TRUE]

\* ------------------------------------------------------------- construction
NewBaseBehaviorNode ==
    [nodeType |-> BNODE_TYPE_ACTION, state |-> BNODE_STAT_NOT_EXECUTE,
     step |-> 0, subNodes |-> <<>>]

NewControlNode(nodeType) ==
    [NewBaseBehaviorNode EXCEPT !.nodeType = nodeType]

\* NewAgentBNode, NewSequenceNode, NewSelectNode, NewParallelNode by type.
NewNode(nodeType) ==
    IF nodeType = BNODE_TYPE_ACTION THEN NewBaseBehaviorNode ELSE NewControlNode(nodeType)

\* NewFSM(id): an empty machine, not started.
NewFSM ==
    /\ state = ""
    /\ oldStates = <<>>
    /\ mapName2State = EmptyMap
    /\ mapName2Action = EmptyMap
    /\ transitions = <<>>
    /\ last = [op |-> "NewFSM", arg |-> "", param |-> "", succ |-> TRUE]
    /\ pre = [state |-> "", oldStates |-> <<>>]
    /\ err = NoErr
    /\ calls = <<>>
    /\ seen = <<>>

\* A composite of the given type as the root of a tree, not yet ticked.
NewTree(rootType) ==
    /\ nodes = [id \in {BTREE_ROOT_NODE_ID} |-> NewControlNode(rootType)]
    /\ ticked = [op |-> "New", log |-> <<>>, turn |-> 0]

\* NewFSM and NewBehaviorTree, whose root is a sequence.
\* The maps of an agent that registered nothing, no call made.
NoBinding ==
    /\ mapState2BTree = EmptyMap
    /\ mapState2EnterFunc = EmptyMap
    /\ mapState2UpdateFunc = EmptyMap
    /\ mapState2ExitFunc = EmptyMap
    /\ updated = [op |-> "New", funcs |-> <<>>, execs |-> 0, panic |-> FALSE]

Init ==
    /\ NewFSM
    /\ NewTree(BNODE_TYPE_SEQUENCE)
    /\ NoBinding

\* The ticked root is the sequence NewBehaviorTree makes, or a composite made
\* by NewSelectNode / NewParallelNode that its owner ticks itself.
InitBT ==
    /\ NewFSM
    /\ \E rootType \in BNodeTypes \ {BNODE_TYPE_ACTION} : NewTree(rootType)
    /\ NoBinding

\* ------------------------------------------------------------- registration
AddState(name, stat) ==
    /\ Called(Register, "", "", TRUE)
    /\ IF name = ""
       THEN Return(ErrNameLenZero)
       ELSE IF stat = Nil
       THEN Return(ErrStatNil)
       ELSE /\ mapName2State' = MapPut(mapName2State, name, stat)
            /\ err' = NoErr
            /\ calls' = <<>>
            /\ UNCHANGED <<state, oldStates, mapName2Action, transitions>>
    /\ seen' = BeforeCommit(calls')

RemoveState(name) ==
    /\ Called(Register, "", "", TRUE)
    /\ mapName2State' = MapDelete(mapName2State, name)
    /\ err' = NoErr
    /\ calls' = <<>>
    /\ UNCHANGED <<state, oldStates, mapName2Action, transitions>>
    /\ seen' = BeforeCommit(calls')

AddAction(name, act) ==
    /\ Called(Register, "", "", TRUE)
    /\ IF name = ""
       THEN Return(ErrNameLenZero)
       ELSE IF act = Nil
       THEN Return(ErrActNil)
       ELSE /\ mapName2Action' = MapPut(mapName2Action, name, act)
            /\ err' = NoErr
            /\ calls' = <<>>
            /\ UNCHANGED <<state, oldStates, mapName2State, transitions>>
    /\ seen' = BeforeCommit(calls')

RemoveAction(name) ==
    /\ Called(Register, "", "", TRUE)
    /\ mapName2Action' = MapDelete(mapName2Action, name)
    /\ err' = NoErr
    /\ calls' = <<>>
    /\ UNCHANGED <<state, oldStates, mapName2State, transitions>>
    /\ seen' = BeforeCommit(calls')

AddTransition(from, evt, to, action) ==
    /\ last' = [op |-> "AddTransition", arg |-> "", param |-> "", succ |-> TRUE,
                tran |-> [From |-> from, Event |-> evt, To |-> to, Action |-> action]]
    /\ pre' = [state |-> state, oldStates |-> oldStates]
    /\ UNCHANGED <<btVars, agentVars>>
    /\ IF from = ""
       THEN Return(ErrFromStatNotExist)
       ELSE IF evt = ""
       THEN Return(ErrEvtEmpty)
       ELSE IF to = ""
       THEN Return(ErrToStatNotExist)
       ELSE /\ Len(transitions) < MaxTrans
            /\ transitions' = Append(transitions, NewFSMTransition(from, evt, to, action))
            /\ err' = NoErr
            /\ calls' = <<>>
            /\ UNCHANGED <<state, oldStates, mapName2State, mapName2Action>>
    /\ seen' = BeforeCommit(calls')

RemoveTransition(from, evt) ==
    /\ Called(Register, "", "", TRUE)
    /\ IF from = "" \/ evt = "" \/ MatchIdx(from, evt) = {}
       THEN Return(NoErr)
       ELSE /\ transitions' = RemoveAt(transitions, MinOf(MatchIdx(from, evt)))
            /\ err' = NoErr
            /\ calls' = <<>>
            /\ UNCHANGED <<state, oldStates, mapName2State, mapName2Action>>
    /\ seen' = BeforeCommit(calls')

\* ------------------------------------------------------------------ running
\* (mutation) the entered state is told it comes from itself
StartEnterFromSelf(stat, firstState) ==
    <<HookCall(stat, "OnEnter", firstState)>>

\* stat.OnEnter("")
StartEnter(stat, firstState) ==
    <<HookCall(stat, "OnEnter", "")>>

\* (mutation) the name is stored before it is looked up
StartKeepsName(firstState) ==
    /\ Called("Start", firstState, "", TRUE)
    /\ IF firstState = ""
       THEN Return(ErrNoFirstStat)
       ELSE /\ err' = NoErr
            /\ state' = firstState
            /\ calls' = IF GetState(firstState).ok
                        THEN StartEnter(GetState(firstState).stat, firstState)
                        ELSE <<>>
            /\ UNCHANGED <<oldStates, mapName2State, mapName2Action, transitions>>
    /\ seen' = AfterCommit(calls')

\* (mutation) starting again forgets the history
StartForgets(firstState) ==
    /\ Called("Start", firstState, "", TRUE)
    /\ IF firstState = ""
       THEN Return(ErrNoFirstStat)
       ELSE /\ err' = NoErr
            /\ IF GetState(firstState).ok
               THEN /\ state' = firstState
                    /\ oldStates' = <<>>
                    /\ calls' = StartEnter(GetState(firstState).stat, firstState)
               ELSE /\ calls' = <<>>
                    /\ UNCHANGED <<state, oldStates>>
            /\ UNCHANGED <<mapName2State, mapName2Action, transitions>>
    /\ seen' = AfterCommit(calls')

Start(firstState) ==
    /\ Called("Start", firstState, "", TRUE)
    /\ IF firstState = ""
       THEN Return(ErrNoFirstStat)
       ELSE /\ err' = NoErr
            /\ IF GetState(firstState).ok
               THEN /\ state' = firstState
                    /\ calls' = StartEnter(GetState(firstState).stat, firstState)
               ELSE /\ calls' = <<>>
                    /\ UNCHANGED state
            /\ UNCHANGED <<oldStates, mapName2State, mapName2Action, transitions>>
    /\ seen' = AfterCommit(calls')

\* (mutation) Stop clears the current state after the exit hook
StopClears ==
    /\ Called("Stop", "", "", TRUE)
    /\ err' = NoErr
    /\ calls' = IF state # "" /\ GetState(state).ok
                THEN <<HookCall(GetState(state).stat, "OnExit", "")>>
                ELSE <<>>
    /\ state' = ""
    /\ UNCHANGED <<oldStates, mapName2State, mapName2Action, transitions>>
    /\ seen' = BeforeCommit(calls')

Stop ==
    /\ Called("Stop", "", "", TRUE)
    /\ err' = NoErr
    /\ calls' = IF state # "" /\ GetState(state).ok
                THEN <<HookCall(GetState(state).stat, "OnExit", "")>>
                ELSE <<>>
    /\ UNCHANGED fsmVars
    /\ seen' = BeforeCommit(calls')

Update(dt) ==
    /\ Called("Update", "", "", TRUE)
    /\ err' = NoErr
    /\ calls' = IF GetState(state).ok
                THEN <<UpdateCall(GetState(state).stat, dt)>>
                ELSE <<>>
    /\ UNCHANGED fsmVars
    /\ seen' = BeforeCommit(calls')

\* (mutation) the new state is entered before the old one is exited
EnterExit(oldStat, newStat, from, to) ==
    <<HookCall(newStat, "OnEnter", from), HookCall(oldStat, "OnExit", to)>>

\* oldStat.OnExit(to); newStat.OnEnter(from)
ExitEnter(oldStat, newStat, from, to) ==
    <<HookCall(oldStat, "OnExit", to), HookCall(newStat, "OnEnter", from)>>

\* (mutation) the result of DoAction is ignored
VetoIgnored(ok, succ) == FALSE

\* if ok { succ := act.DoAction(evt, param...); if !succ { return nil } }
Vetoed(ok, succ) == ok /\ ~succ

\* (mutation) the state entered is pushed instead of the state left
PushNew(olds, from, to) == Append(olds, to)

\* f.oldStates = append(f.oldStates, f.state), f.state being the state left
PushOld(olds, from, to) == Append(olds, from)

\* (mutation) the target of the transition is resolved before the current
\* state is
TriggerWithToFirst(evt, param, succ) ==
    /\ Called("Trigger", evt, param, succ)
    /\ IF evt = ""
       THEN Return(ErrEvtEmpty)
       ELSE IF state = ""
       THEN Return(ErrNoFirstStat)
       ELSE IF ~GetTransition(state, evt).ok
       THEN Return(ErrTranNotExist)
       ELSE IF ~GetState(GetTransition(state, evt).tran.To).ok
       THEN Return(ErrToStatNotExist)
       ELSE IF ~GetState(state).ok
       THEN Return(ErrFromStatNotExist)
       ELSE LET triggerTran == GetTransition(state, evt).tran
                oldStat == GetState(state).stat
                newStat == GetState(triggerTran.To)
                act == GetAction(triggerTran.Action)
                gate == IF act.ok
                        THEN <<ActionCall(act.act, evt, param, succ)>>
                        ELSE <<>>
            IN IF Vetoed(act.ok, succ)
               THEN err' = NoErr /\ calls' = gate /\ UNCHANGED fsmVars
               ELSE /\ Len(oldStates) < MaxHist
                    /\ err' = NoErr
                    /\ calls' = gate \o ExitEnter(oldStat, newStat.stat, state, triggerTran.To)
                    /\ oldStates' = PushOld(oldStates, state, triggerTran.To)
                    /\ state' = triggerTran.To
                    /\ UNCHANGED <<mapName2State, mapName2Action, transitions>>
    /\ seen' = BeforeCommit(calls')

\* Trigger, the gating action answering `succ` should it be invoked.
TriggerWith(evt, param, succ) ==
    /\ Called("Trigger", evt, param, succ)
    /\ IF evt = ""
       THEN Return(ErrEvtEmpty)
       ELSE IF state = ""
       THEN Return(ErrNoFirstStat)
       ELSE IF ~GetTransition(state, evt).ok
       THEN Return(ErrTranNotExist)
       ELSE IF ~GetState(state).ok
       THEN Return(ErrFromStatNotExist)
       ELSE LET triggerTran == GetTransition(state, evt).tran
                oldStat == GetState(state).stat
                newStat == GetState(triggerTran.To)
                act == GetAction(triggerTran.Action)
                gate == IF act.ok
                        THEN <<ActionCall(act.act, evt, param, succ)>>
                        ELSE <<>>
            IN IF ~newStat.ok
               THEN Return(ErrToStatNotExist)
               ELSE IF Vetoed(act.ok, succ)
               THEN err' = NoErr /\ calls' = gate /\ UNCHANGED fsmVars
               ELSE /\ Len(oldStates) < MaxHist
                    /\ err' = NoErr
                    /\ calls' = gate \o ExitEnter(oldStat, newStat.stat, state, triggerTran.To)
                    /\ oldStates' = PushOld(oldStates, state, triggerTran.To)
                    /\ state' = triggerTran.To
                    /\ UNCHANGED <<mapName2State, mapName2Action, transitions>>
    /\ seen' = BeforeCommit(calls')

\* Whether Trigger(evt) gets as far as invoking a gating action.
GateReached(evt) ==
    /\ GetTransition(state, evt).ok
    /\ GetState(state).ok
    /\ GetState(GetTransition(state, evt).tran.To).ok
    /\ GetAction(GetTransition(state, evt).tran.Action).ok

\* The action's answer is drawn when the action is invoked.
Trigger(evt, param) ==
    \E succ \in IF GateReached(evt) THEN BOOLEAN ELSE {TRUE} :
        TriggerWith(evt, param, succ)

\* (mutation) the entry popped stays on the stack
PopKept(olds, idx) == olds

\* f.oldStates[:idx]
PopRest(olds, idx) == SubSeq(olds, 1, idx - 1)

\* (mutation) the top of the history is resolved before the current state is
PopStateToFirst ==
    /\ Called("PopState", "", "", TRUE)
    /\ IF Len(oldStates) = 0
       THEN Return(ErrNoOldStat)
       ELSE IF ~GetState(oldStates[Len(oldStates)]).ok
       THEN Return(ErrToStatNotExist)
       ELSE IF ~GetState(state).ok
       THEN Return(ErrFromStatNotExist)
       ELSE LET idx == Len(oldStates)
                oldStat == GetState(state).stat
                newStat == GetState(oldStates[idx])
            IN /\ err' = NoErr
               /\ calls' = ExitEnter(oldStat, newStat.stat, state, oldStates[idx])
               /\ state' = oldStates[idx]
               /\ oldStates' = PopRest(oldStates, idx)
               /\ UNCHANGED <<mapName2State, mapName2Action, transitions>>
    /\ seen' = BeforeCommit(calls')

PopState ==
    /\ Called("PopState", "", "", TRUE)
    /\ IF Len(oldStates) = 0
       THEN Return(ErrNoOldStat)
       ELSE IF ~GetState(state).ok
       THEN Return(ErrFromStatNotExist)
       ELSE LET idx == Len(oldStates)
                oldStat == GetState(state).stat
                newStat == GetState(oldStates[idx])
            IN IF ~newStat.ok
               THEN Return(ErrToStatNotExist)
               ELSE /\ err' = NoErr
                    /\ calls' = ExitEnter(oldStat, newStat.stat, state, oldStates[idx])
                    /\ state' = oldStates[idx]
                    /\ oldStates' = PopRest(oldStates, idx)
                    /\ UNCHANGED <<mapName2State, mapName2Action, transitions>>
    /\ seen' = BeforeCommit(calls')

\* ------------------------------------------------------------ tree editing
\* The ids of the subtree rooted at id.
RECURSIVE Descendants(_, _)
Descendants(ns, id) ==
    {id} \cup UNION {Descendants(ns, ns[id].subNodes[k]) : k \in 1..Len(ns[id].subNodes)}

\* A tree call that is not Execute: no node's Execute is invoked.
Edited ==
    /\ ticked' = [op |-> "Edit", log |-> <<>>, turn |-> 0]
    /\ UNCHANGED <<fsmAll, agentVars>>

\* parent.AddChild(child) for a newly constructed child of the given type.
\* A leaf inherits BaseBehaviorNode.AddChild, which does nothing.
AddChild(parent, nodeType) ==
    /\ Edited
    /\ IF nodes[parent].nodeType = BNODE_TYPE_ACTION
       THEN UNCHANGED nodes
       ELSE /\ NodeIds \ DOMAIN nodes # {}
            /\ LET id == MinOf(NodeIds \ DOMAIN nodes)
               IN nodes' = [n \in DOMAIN nodes \cup {id} |->
                              IF n = id THEN NewNode(nodeType)
                              ELSE IF n = parent
                              THEN [nodes[n] EXCEPT !.subNodes = Append(@, id)]
                              ELSE nodes[n]]

\* n.subNodes = append(n.subNodes[:i], n.subNodes[i+1:]...): the child and
\* all below it leave the tree.
DropChildAt(parent, i) ==
    LET gone == Descendants(nodes, nodes[parent].subNodes[i])
    IN [n \in DOMAIN nodes \ gone |->
          IF n = parent
          THEN [nodes[n] EXCEPT !.subNodes = RemoveAt(@, i)]
          ELSE nodes[n]]

\* Positions of child in parent's subNodes.
ChildIdx(parent, child) ==
    {i \in 1..Len(nodes[parent].subNodes) : nodes[parent].subNodes[i] = child}

RemoveChild(parent, child) ==
    /\ Edited
    /\ IF nodes[parent].nodeType = BNODE_TYPE_ACTION \/ ChildIdx(parent, child) = {}
       THEN UNCHANGED nodes
       ELSE nodes' = DropChildAt(parent, MinOf(ChildIdx(parent, child)))

\* The same loop, comparing exist.GetID() with nodeId.
RemoveChildByID(parent, nodeId) ==
    /\ Edited
    /\ IF nodes[parent].nodeType = BNODE_TYPE_ACTION \/ ChildIdx(parent, nodeId) = {}
       THEN UNCHANGED nodes
       ELSE nodes' = DropChildAt(parent, MinOf(ChildIdx(parent, nodeId)))

\* Number of UpdateStep calls made on the nodes of S.
RECURSIVE StepsOf(_)
StepsOf(S) ==
    IF S = {} THEN 0
    ELSE LET n == CHOOSE n \in S : TRUE IN nodes[n].step + StepsOf(S \ {n})

\* n.step++
UpdateStep(id) ==
    /\ Edited
    /\ StepsOf(DOMAIN nodes) < MaxSteps
    /\ nodes' = [nodes EXCEPT ![id].step = @ + 1]

\* --------------------------------------------------------------- execution
\* Execute works on ns, the nodes as they are so far in this tick, and
\* returns them with the ids of the nodes whose Execute it invoked.  `oracle`
\* gives, for each leaf, the state its handler returns if invoked.
Done(ns, log) == [nodes |-> ns, log |-> log]

SetState(ns, id, stat) == [ns EXCEPT ![id].state = stat]

IsCompleted(n) ==
    n.state = BNODE_STAT_SUCC \/ n.state = BNODE_STAT_FAIL

\* (mutation) a completed composite executes again
NeverCompleted(n) == FALSE

\* if n.IsCompleted() { return }, first statement of a composite's Execute
AlreadyCompleted(n) == IsCompleted(n)

\* Positions of the children the range loop does not skip.
Pending(ns, id) ==
    {i \in 1..Len(ns[id].subNodes) : ~IsCompleted(ns[ns[id].subNodes[i]])}

\* AgentBNode.Execute with a listener: the handler's state is the node's.
AgentBNodeExecute(id, ns, oracle) ==
    Done(SetState(ns, id, oracle[id]), <<id>>)

\* (mutation) the sequence succeeds as soon as a child succeeds
SequenceStateFirstSucc(cur, childState, i, childLen) ==
    IF childState = BNODE_STAT_FAIL THEN BNODE_STAT_FAIL
    ELSE IF childState = BNODE_STAT_SUCC THEN BNODE_STAT_SUCC
    ELSE cur

\* State of a sequence after it executed child i, now in childState.
SequenceState(cur, childState, i, childLen) ==
    IF childState # BNODE_STAT_SUCC /\ childState # BNODE_STAT_FAIL THEN cur
    ELSE IF childState = BNODE_STAT_FAIL THEN BNODE_STAT_FAIL
    ELSE IF i = childLen THEN BNODE_STAT_SUCC
    ELSE cur

\* (mutation) a selector whose last child failed goes on executing
SelectStateNoLast(cur, childState, i, childLen) ==
    IF childState = BNODE_STAT_SUCC THEN BNODE_STAT_SUCC ELSE cur

\* (mutation) the selector fails as soon as a child fails
SelectStateFirstFail(cur, childState, i, childLen) ==
    IF childState = BNODE_STAT_SUCC THEN BNODE_STAT_SUCC
    ELSE IF childState = BNODE_STAT_FAIL THEN BNODE_STAT_FAIL
    ELSE cur

\* State of a selector after it executed child i, now in childState.
SelectState(cur, childState, i, childLen) ==
    IF childState # BNODE_STAT_SUCC /\ childState # BNODE_STAT_FAIL THEN cur
    ELSE IF childState = BNODE_STAT_SUCC THEN BNODE_STAT_SUCC
    ELSE IF i = childLen THEN BNODE_STAT_FAIL
    ELSE cur

\* (mutation) the loop goes on after a failed child
ParallelNextNoBreak(i, childState, childLen) == i + 1

\* Next position of the parallel loop: past the end on break.
ParallelNext(i, childState, childLen) ==
    IF childState = BNODE_STAT_FAIL THEN childLen + 1 ELSE i + 1

RECURSIVE NodeExecute(_, _, _)

\* Sequence and selector run the same loop: the first child not completed is
\* executed, and the loop breaks whatever comes of it.
SequenceNodeExecute(id, ns, oracle) ==
    IF AlreadyCompleted(ns[id]) THEN Done(ns, <<id>>)
    ELSE LET n1 == SetState(ns, id, BNODE_STAT_EXECUTING)
             childLen == Len(n1[id].subNodes)
         IN IF Pending(n1, id) = {} THEN Done(n1, <<id>>)
            ELSE LET i == MinOf(Pending(n1, id))
                     r == NodeExecute(n1[id].subNodes[i], n1, oracle)
                     childState == r.nodes[n1[id].subNodes[i]].state
                 IN Done(SetState(r.nodes, id,
                                  SequenceState(r.nodes[id].state, childState, i, childLen)),
                         <<id>> \o r.log)

SelectNodeExecute(id, ns, oracle) ==
    IF AlreadyCompleted(ns[id]) THEN Done(ns, <<id>>)
    ELSE LET n1 == SetState(ns, id, BNODE_STAT_EXECUTING)
             childLen == Len(n1[id].subNodes)
         IN IF Pending(n1, id) = {} THEN Done(n1, <<id>>)
            ELSE LET i == MinOf(Pending(n1, id))
                     r == NodeExecute(n1[id].subNodes[i], n1, oracle)
                     childState == r.nodes[n1[id].subNodes[i]].state
                 IN Done(SetState(r.nodes, id,
                                  SelectState(r.nodes[id].state, childState, i, childLen)),
                         <<id>> \o r.log)

\* The range loop of ParallelNode.Execute from position i on.
RECURSIVE ParallelLoop(_, _, _, _, _, _)
ParallelLoop(id, i, ns, bFinish, log, oracle) ==
    LET childLen == Len(ns[id].subNodes)
        child == ns[id].subNodes[i]
    IN IF i > childLen THEN [nodes |-> ns, log |-> log, bFinish |-> bFinish]
       ELSE IF IsCompleted(ns[child])
       THEN ParallelLoop(id, i + 1, ns, bFinish, log, oracle)
       ELSE LET r == NodeExecute(child, ns, oracle)
                childState == r.nodes[child].state
            IN IF ~IsCompleted(r.nodes[child])
               THEN ParallelLoop(id, i + 1, r.nodes, FALSE, log \o r.log, oracle)
               ELSE IF childState = BNODE_STAT_FAIL
               THEN ParallelLoop(id, ParallelNext(i, childState, childLen),
                                 SetState(r.nodes, id, BNODE_STAT_FAIL),
                                 bFinish, log \o r.log, oracle)
               ELSE ParallelLoop(id, i + 1, r.nodes, bFinish, log \o r.log, oracle)

\* (mutation) bFinish starts false: it takes an executed child to finish
ParallelNodeExecuteNoFinish(id, ns, oracle) ==
    IF AlreadyCompleted(ns[id]) THEN Done(ns, <<id>>)
    ELSE LET n1 == SetState(ns, id, BNODE_STAT_EXECUTING)
             r == ParallelLoop(id, 1, n1, FALSE, <<id>>, oracle)
         IN IF r.bFinish /\ r.nodes[id].state = BNODE_STAT_EXECUTING
            THEN Done(SetState(r.nodes, id, BNODE_STAT_SUCC), r.log)
            ELSE Done(r.nodes, r.log)

ParallelNodeExecute(id, ns, oracle) ==
    IF AlreadyCompleted(ns[id]) THEN Done(ns, <<id>>)
    ELSE LET n1 == SetState(ns, id, BNODE_STAT_EXECUTING)
             r == ParallelLoop(id, 1, n1, TRUE, <<id>>, oracle)
         IN IF r.bFinish /\ r.nodes[id].state = BNODE_STAT_EXECUTING
            THEN Done(SetState(r.nodes, id, BNODE_STAT_SUCC), r.log)
            ELSE Done(r.nodes, r.log)

\* Dispatch of the BehaviorNode interface's Execute on the node's type.
NodeExecute(id, ns, oracle) ==
    IF ns[id].nodeType = BNODE_TYPE_ACTION THEN AgentBNodeExecute(id, ns, oracle)
    ELSE IF ns[id].nodeType = BNODE_TYPE_SEQUENCE THEN SequenceNodeExecute(id, ns, oracle)
    ELSE IF ns[id].nodeType = BNODE_TYPE_SELECT THEN SelectNodeExecute(id, ns, oracle)
    ELSE ParallelNodeExecute(id, ns, oracle)

\* The leaves a tick can reach: a completed child is skipped by its parent.
Leaves(ns) ==
    {id \in DOMAIN ns : ns[id].nodeType = BNODE_TYPE_ACTION /\ ~IsCompleted(ns[id])}

\* BehaviorTree.Execute: t.rootNode.Execute()
BehaviorTreeExecute ==
    \E oracle \in [Leaves(nodes) -> BNodeStates] :
        LET r == NodeExecute(BTREE_ROOT_NODE_ID, nodes, oracle)
        IN /\ nodes' = r.nodes
           /\ ticked' = [op |-> "Execute", log |-> r.log,
                         turn |-> IF ticked.op = "Execute" THEN 1 - ticked.turn ELSE 0]
           /\ UNCHANGED <<fsmAll, agentVars>>

\* The leaves of the tree, completed or not.
AllLeaves(ns) == {id \in DOMAIN ns : ns[id].nodeType = BNODE_TYPE_ACTION}

\* Every composite of the tree has a child.
NoneChildless(ns) ==
    \A id \in DOMAIN ns : ns[id].nodeType = BNODE_TYPE_ACTION \/ ns[id].subNodes # <<>>

\* BehaviorTree.Execute on a tree none of whose composites is childless, every
\* handler invoked answering Succeeded or Failed.  `count` is the number of
\* such calls since the tree was built; the calls beyond one more than the
\* number of leaves are left out.
RunTick ==
    /\ NoneChildless(nodes)
    /\ ticked.op = "Run" => ticked.count <= Cardinality(AllLeaves(nodes))
    /\ \E oracle \in [Leaves(nodes) -> {BNODE_STAT_SUCC, BNODE_STAT_FAIL}] :
          LET r == NodeExecute(BTREE_ROOT_NODE_ID, nodes, oracle)
          IN /\ nodes' = r.nodes
             /\ ticked' = [op |-> "Run", log |-> r.log,
                           turn |-> IF ticked.op = "Run" THEN 1 - ticked.turn ELSE 0,
                           count |-> IF ticked.op = "Run" THEN ticked.count + 1 ELSE 1]
    /\ UNCHANGED <<fsmAll, agentVars>>

\* leaf.Execute() called by the owner of the node rather than by its parent:
\* the handler answers stat.  `handled` holds what the handler returned, once
\* for each time it was invoked.
LeafExecute(id) ==
    /\ nodes[id].nodeType = BNODE_TYPE_ACTION
    /\ \E stat \in BNodeStates :
          LET r == AgentBNodeExecute(id, nodes, [l \in {id} |-> stat])
          IN /\ nodes' = r.nodes
             /\ ticked' = [op |-> "LeafExecute", log |-> r.log,
                           turn |-> IF ticked.op = "LeafExecute" THEN 1 - ticked.turn ELSE 0,
                           node |-> id,
                           handled |-> [p \in 1..Len(r.log) |-> stat]]
    /\ UNCHANGED <<fsmAll, agentVars>>

\* ------------------------------------------------------------------- agent
AGENT_STATE_IDLE == "agent_state_idle"

\* The names states are registered under, the agent's first state among them.
AgentStateNames == {AGENT_STATE_IDLE, "A"}
\* The tree handed to BaseAgent.AddState: the tree held in `nodes`.
TheTree == "btree"
\* A caller-supplied callback function.
AgentFuncs == {"fn"}

\* &AgentFsmState{name, listener: the agent}
NewAgentFsmState(name) == [name |-> name, listener |-> "agent"]

\* NewBaseAgent: the FSM is made with AGENT_STATE_IDLE as its state.
NewBaseAgent ==
    /\ state = AGENT_STATE_IDLE
    /\ oldStates = <<>>
    /\ mapName2State = EmptyMap
    /\ mapName2Action = EmptyMap
    /\ transitions = <<>>
    /\ last = [op |-> "NewFSM", arg |-> "", param |-> "", succ |-> TRUE]
    /\ pre = [state |-> AGENT_STATE_IDLE, oldStates |-> <<>>]
    /\ err = NoErr
    /\ calls = <<>>
    /\ seen = <<>>
    /\ NoBinding

InitAgent ==
    /\ NewBaseAgent
    /\ NewTree(BNODE_TYPE_SEQUENCE)

\* What an agent method that is not Update leaves in `updated`.
AgentCalled(op) ==
    /\ ~updated.panic
    /\ updated' = [op |-> op, funcs |-> <<>>, execs |-> 0, panic |-> FALSE]

\* The call of a method of a.fsm that invokes no callback.
FsmCalled(op) ==
    /\ last' = [op |-> op, arg |-> "", param |-> "", succ |-> TRUE]
    /\ pre' = [state |-> state, oldStates |-> oldStates]
    /\ err' = NoErr
    /\ calls' = <<>>
    /\ seen' = <<>>

BaseAgentAddState(name, behaviorTree, enterFunc, updateFunc, exitFunc) ==
    /\ AgentCalled("AddState")
    /\ IF name = ""
       THEN UNCHANGED <<fsmAll, mapState2BTree, mapState2EnterFunc,
                        mapState2UpdateFunc, mapState2ExitFunc>>
       ELSE /\ FsmCalled(Register)
            /\ mapName2State' = MapPut(mapName2State, name, NewAgentFsmState(name))
            /\ mapState2BTree' = MapPut(mapState2BTree, name, behaviorTree)
            /\ mapState2EnterFunc' = MapPut(mapState2EnterFunc, name, enterFunc)
            /\ mapState2UpdateFunc' = MapPut(mapState2UpdateFunc, name, updateFunc)
            /\ mapState2ExitFunc' = MapPut(mapState2ExitFunc, name, exitFunc)
            /\ UNCHANGED <<state, oldStates, mapName2Action, transitions>>
    /\ UNCHANGED btVars

BaseAgentRemoveState(name) ==
    /\ AgentCalled("RemoveState")
    /\ IF name = ""
       THEN UNCHANGED <<fsmAll, mapState2BTree, mapState2EnterFunc,
                        mapState2UpdateFunc, mapState2ExitFunc>>
       ELSE /\ FsmCalled(Register)
            /\ mapName2State' = MapDelete(mapName2State, name)
            /\ mapState2BTree' = MapDelete(mapState2BTree, name)
            /\ mapState2EnterFunc' = MapDelete(mapState2EnterFunc, name)
            /\ mapState2UpdateFunc' = MapDelete(mapState2UpdateFunc, name)
            /\ mapState2ExitFunc' = MapDelete(mapState2ExitFunc, name)
            /\ UNCHANGED <<state, oldStates, mapName2Action, transitions>>
    /\ UNCHANGED btVars

\* BaseAgent.OnUpdateFsmState(state, dt).  `f, ok := map[state]` is ok for a
\* key stored with a nil value; calling the nil func, or Execute on a nil
\* tree, panics.
OnUpdateFsmState(name, dt) ==
    IF name \in DOMAIN mapState2UpdateFunc
    THEN /\ updated' = [op |-> "Update",
                        funcs |-> IF mapState2UpdateFunc[name] = Nil THEN <<>> ELSE <<dt>>,
                        execs |-> 0,
                        panic |-> mapState2UpdateFunc[name] = Nil]
         /\ UNCHANGED btVars
    ELSE IF name \in DOMAIN mapState2BTree /\ mapState2BTree[name] # Nil
    THEN /\ updated' = [op |-> "Update", funcs |-> <<>>, execs |-> 1, panic |-> FALSE]
         /\ \E oracle \in [Leaves(nodes) -> BNodeStates] :
              LET r == NodeExecute(BTREE_ROOT_NODE_ID, nodes, oracle)
              IN /\ nodes' = r.nodes
                 /\ ticked' = [op |-> "Execute", log |-> r.log,
                               turn |-> IF ticked.op = "Execute" THEN 1 - ticked.turn ELSE 0]
    ELSE /\ updated' = [op |-> "Update", funcs |-> <<>>, execs |-> 0,
                        panic |-> name \in DOMAIN mapState2BTree]
         /\ UNCHANGED btVars

\* BaseAgent.Update: a.fsm.Update(dt), whose OnUpdate goes to the agent.
BaseAgentUpdate(dt) ==
    /\ ~updated.panic
    /\ last' = [op |-> "Update", arg |-> "", param |-> "", succ |-> TRUE]
    /\ pre' = [state |-> state, oldStates |-> oldStates]
    /\ err' = NoErr
    /\ calls' = IF GetState(state).ok
                THEN <<UpdateCall(GetState(state).stat, dt)>>
                ELSE <<>>
    /\ seen' = BeforeCommit(calls')
    /\ IF GetState(state).ok
       THEN OnUpdateFsmState(GetState(state).stat.name, dt)
       ELSE /\ updated' = [op |-> "Update", funcs |-> <<>>, execs |-> 0, panic |-> FALSE]
            /\ UNCHANGED btVars
    /\ UNCHANGED <<fsmVars, mapState2BTree, mapState2EnterFunc,
                   mapState2UpdateFunc, mapState2ExitFunc>>

\* ------------------------------------------------------------ specification
\* The FSM under every interleaving of its methods.  Registration is called
\* with well-formed arguments here: a rejected registration changes nothing
\* of the machine.  The transitions added join two different states.
Next ==
    \/ \E name \in StateNames : AddState(name, StateObjOf[name])
    \/ \E name \in StateNames : RemoveState(name)
    \/ \E name \in ActionNames, act \in ActionObjs : AddAction(name, act)
    \/ \E name \in ActionNames : RemoveAction(name)
    \/ \E from \in StateNames, evt \in Events :
        \E to \in StateNames \ {from}, action \in ActionNames \cup {""} :
            AddTransition(from, evt, to, action)
    \/ \E from \in StateNames, evt \in Events : RemoveTransition(from, evt)
    \/ \E firstState \in StateNames \cup {""} : Start(firstState)
    \/ Stop
    \/ \E dt \in Dts : Update(dt)
    \/ \E evt \in Events \cup {""}, param \in Params : Trigger(evt, param)
    \/ PopState

Spec == Init /\ [][Next]_vars

\* The FSM when nothing is ever removed from it: Add* and the running calls.
NextNoRemove ==
    \/ \E name \in StateNames : AddState(name, StateObjOf[name])
    \/ \E name \in ActionNames, act \in ActionObjs : AddAction(name, act)
    \/ \E from \in StateNames, evt \in Events :
        \E to \in StateNames \ {from}, action \in ActionNames \cup {""} :
            AddTransition(from, evt, to, action)
    \/ \E firstState \in StateNames \cup {""} : Start(firstState)
    \/ Stop
    \/ \E dt \in Dts : Update(dt)
    \/ \E evt \in Events \cup {""}, param \in Params : Trigger(evt, param)
    \/ PopState

SpecNoRemove == Init /\ [][NextNoRemove]_vars

\* The transition list under AddTransition with any arguments, empty ones
\* and names of unregistered states included.
NextAdd ==
    \/ \E name \in StateNames : AddState(name, StateObjOf[name])
    \/ \E name \in ActionNames, act \in ActionObjs : AddAction(name, act)
    \/ \E from \in StateNames \cup {""}, evt \in Events \cup {""} :
        \E to \in StateNames \cup {""}, action \in ActionNames \cup {""} :
            AddTransition(from, evt, to, action)
    \/ \E from \in StateNames, evt \in Events : RemoveTransition(from, evt)

SpecAdd == Init /\ [][NextAdd]_vars

\* A behavior tree under every interleaving of edits and ticks from the root.
NextBT ==
    \/ \E parent \in DOMAIN nodes, nodeType \in BNodeTypes : AddChild(parent, nodeType)
    \/ \E parent \in DOMAIN nodes, child \in DOMAIN nodes \ {BTREE_ROOT_NODE_ID} :
            RemoveChild(parent, child)
    \/ \E parent \in DOMAIN nodes, nodeId \in DOMAIN nodes \ {BTREE_ROOT_NODE_ID} :
            RemoveChildByID(parent, nodeId)
    \/ BehaviorTreeExecute

SpecBT == InitBT /\ [][NextBT]_vars

\* A tree that is built up and ticked while its step counters move.
NextBTStep ==
    \/ \E parent \in DOMAIN nodes, nodeType \in BNodeTypes : AddChild(parent, nodeType)
    \/ \E id \in DOMAIN nodes : UpdateStep(id)
    \/ BehaviorTreeExecute

SpecBTStep == InitBT /\ [][NextBTStep]_vars

\* A tree whose leaves are also executed directly.
NextLeaf ==
    \/ NextBT
    \/ \E id \in DOMAIN nodes : LeafExecute(id)

SpecLeaf == InitBT /\ [][NextLeaf]_vars

\* A tree that is built and then only ticked, its handlers always deciding.
NextRun ==
    \/ /\ ticked.op # "Run"
       /\ \E parent \in DOMAIN nodes, nodeType \in BNodeTypes : AddChild(parent, nodeType)
    \/ RunTick

SpecRun == InitBT /\ [][NextRun]_vars

\* A tree that is built and then only ticked from its root, its handlers
\* answering any state.
NextTick ==
    \/ /\ ticked.op # "Execute"
       /\ \E parent \in DOMAIN nodes, nodeType \in BNodeTypes : AddChild(parent, nodeType)
    \/ BehaviorTreeExecute

SpecTick == InitBT /\ [][NextTick]_vars

\* An agent whose states are registered and removed, its tree built, and
\* which is updated; a panic ends the run.
NextAgent ==
    \/ \E name \in AgentStateNames \cup {""}, behaviorTree \in {TheTree, Nil} :
        \E enterFunc \in AgentFuncs, updateFunc \in AgentFuncs \cup {Nil}, exitFunc \in AgentFuncs :
            BaseAgentAddState(name, behaviorTree, enterFunc, updateFunc, exitFunc)
    \/ \E name \in AgentStateNames \cup {""} : BaseAgentRemoveState(name)
    \/ /\ ~updated.panic
       /\ \E parent \in DOMAIN nodes, nodeType \in BNodeTypes : AddChild(parent, nodeType)
    \/ \E dt \in Dts : BaseAgentUpdate(dt)

SpecAgent == InitAgent /\ [][NextAgent]_vars

\* ------------------------------------------------------------------ claims
\* What the claims say of a call, in terms of what its caller can observe.
Registered(name) == name \in DOMAIN mapName2State

IsHook(c) == c.fn # "DoAction"
IsGate(c) == c.fn = "DoAction"
HooksOf(cs) == SelectSeq(cs, IsHook)
GatesOf(cs) == SelectSeq(cs, IsGate)

\* The records of the list for the key (from, evt), by position.
KeyIdx(from, evt) ==
    {i \in 1..Len(transitions) :
        transitions[i].From = from /\ transitions[i].Event = evt}

IsFirstForKey(i) ==
    \A j \in 1..(i - 1) :
        ~(transitions[j].From = transitions[i].From /\ transitions[j].Event = transitions[i].Event)

\* The last call was Trigger(t.Event) in state t.From, both ends of t are
\* registered, and t's gate lets it pass: t names no registered action, or
\* the action answered true.
TriggeredOpen(t) ==
    /\ last.op = "Trigger"
    /\ pre.state = t.From
    /\ last.arg = t.Event
    /\ Registered(t.From)
    /\ Registered(t.To)
    /\ (t.Action \in DOMAIN mapName2Action => last.succ)

\* The machine moved from A to B: no error, A.OnExit(B) once and then
\* B.OnEnter(A) once, A pushed on the history, B current.
Moved(A, B) ==
    /\ err = NoErr
    /\ HooksOf(calls) = <<HookCall(mapName2State[A], "OnExit", B),
                          HookCall(mapName2State[B], "OnEnter", A)>>
    /\ oldStates = Append(pre.oldStates, A)
    /\ state = B

\* C1 as stated: for ANY transition record (A, e, B, g) of the machine with
\* A current and A, B registered and the gate open, Trigger(e) moves the
\* machine from A to B.
C1_AnyRecordMoves ==
    \A i \in 1..Len(transitions) :
        TriggeredOpen(transitions[i]) => Moved(transitions[i].From, transitions[i].To)

\* C1 (amended): when the FIRST record of the transition list with From = A
\* and Event = e is (A, e, B, g), A is current, A and B are registered and g
\* is empty, names no registered action or names an action that answers
\* true, Trigger(e) returns no error, calls A.OnExit(B) once and then
\* B.OnEnter(A) once, pushes A on the history and leaves B current.
C1_FirstRecordMoves ==
    \A i \in 1..Len(transitions) :
        (IsFirstForKey(i) /\ TriggeredOpen(transitions[i]))
            => Moved(transitions[i].From, transitions[i].To)

\* A gated Trigger from A to B, the action answering true, has happened.
C1_Witness ==
    /\ last.op = "Trigger"
    /\ pre.state = "A"
    /\ state = "B"
    /\ oldStates = <<"A">>
    /\ calls = <<ActionCall("a1", "e", "p", TRUE),
                 HookCall("sA", "OnExit", "B"), HookCall("sB", "OnEnter", "A")>>

\* C2: when the matched transition (both of its states registered) names a
\* registered action and DoAction answers false, Trigger returns no error,
\* the action was invoked exactly once with (evt, param), no OnExit/OnEnter
\* hook ran, and the current state and the history are those before the call.
C2_VetoIsTransparent ==
    \A i \in 1..Len(transitions) :
        LET t == transitions[i]
        IN (/\ last.op = "Trigger"
            /\ pre.state = t.From
            /\ last.arg = t.Event
            /\ IsFirstForKey(i)
            /\ Registered(t.From)
            /\ Registered(t.To)
            /\ t.Action \in DOMAIN mapName2Action
            /\ ~last.succ)
           => /\ err = NoErr
              /\ calls = <<ActionCall(mapName2Action[t.Action], last.arg, last.param, FALSE)>>
              /\ state = pre.state
              /\ oldStates = pre.oldStates

\* A Trigger from A with a non-empty history has been vetoed.
C2_Witness ==
    /\ last.op = "Trigger"
    /\ ~last.succ
    /\ pre.state = "A"
    /\ pre.oldStates = <<"B">>
    /\ calls = <<ActionCall("a1", "e", "p", FALSE)>>

\* C3: on a started machine, Trigger(e) for a non-empty e that no record
\* matches with From = current state and Event = e returns ErrTranNotExist,
\* invokes no hook and no action, and leaves current state and history alone.
C3_NoTransition ==
    (/\ last.op = "Trigger"
     /\ pre.state # ""
     /\ last.arg # ""
     /\ KeyIdx(pre.state, last.arg) = {})
    => /\ err = ErrTranNotExist
       /\ calls = <<>>
       /\ state = pre.state
       /\ oldStates = pre.oldStates

\* Trigger found no record for (A, e) in a list that has records for e.
C3_Witness ==
    /\ last.op = "Trigger"
    /\ last.arg = "e"
    /\ pre.state = "A"
    /\ Registered("A")
    /\ Len(transitions) = 2
    /\ KeyIdx("A", "e") = {}
    /\ err = ErrTranNotExist

\* The last call was a Trigger that moved the machine (from pre.state, with
\* history pre.oldStates, to state).
TriggerMoved ==
    /\ last.op = "Trigger"
    /\ err = NoErr
    /\ HooksOf(calls) # <<>>

\* C4: a PopState() right after a Trigger that moved the machine from A to B
\* with history H returns no error, calls B.OnExit(A) and then A.OnEnter(B),
\* makes A current and restores the history to exactly H; and a PopState()
\* on an empty history returns ErrNoOldStat and changes nothing (so when H
\* was empty the second PopState() fails so).
C4_TriggerPopRoundTrip ==
    [][/\ (TriggerMoved /\ last'.op = "PopState")
            => /\ err' = NoErr
               /\ calls' = <<HookCall(mapName2State[state], "OnExit", pre.state),
                             HookCall(mapName2State[pre.state], "OnEnter", state)>>
               /\ state' = pre.state
               /\ oldStates' = pre.oldStates
       /\ (last'.op = "PopState" /\ oldStates = <<>>)
            => /\ err' = ErrNoOldStat
               /\ calls' = <<>>
               /\ UNCHANGED fsmVars
      ]_vars

\* PopState has brought the machine back from B to A, one entry left.
C4_Witness ==
    /\ last.op = "PopState"
    /\ err = NoErr
    /\ pre.state = "B"
    /\ pre.oldStates = <<"B", "A">>
    /\ state = "A"
    /\ oldStates = <<"B">>

\* C9: Start(name) for a registered, non-empty name returns no error, makes
\* name current and invokes that state's OnEnter("") exactly once and no
\* other callback (so too after AddState(name, s) on a fresh machine);
\* Start("") returns ErrNoFirstStat and changes nothing.
C9_Start ==
    [][/\ (last'.op = "Start" /\ last'.arg # "" /\ Registered(last'.arg))
            => /\ err' = NoErr
               /\ state' = last'.arg
               /\ calls' = <<HookCall(mapName2State[last'.arg], "OnEnter", "")>>
       /\ (last'.op = "Start" /\ last'.arg = "")
            => /\ err' = ErrNoFirstStat
               /\ calls' = <<>>
               /\ UNCHANGED fsmVars
      ]_vars

\* A fresh machine with the one state A registered has been started in A.
C9_Witness ==
    /\ last.op = "Start"
    /\ last.arg = "A"
    /\ pre.state = ""
    /\ DOMAIN mapName2State = {"A"}
    /\ transitions = <<>>
    /\ state = "A"
    /\ calls = <<HookCall("sA", "OnEnter", "")>>

\* The last call was a Trigger that an action vetoed.
TriggerVetoed ==
    /\ last.op = "Trigger"
    /\ GatesOf(calls) # <<>>
    /\ ~calls[1].ret

\* C10: a Trigger that returns no error and is not vetoed pushes its from
\* state, a PopState that returns no error removes the top entry, and no
\* other call (a vetoed or failed Trigger, a failed PopState, Start, Stop,
\* Update) adds or removes an entry; so the history is, in order, the from
\* states of the successful Triggers not yet popped.
C10_History ==
    IF last.op = "Trigger" /\ err = NoErr /\ ~TriggerVetoed
    THEN oldStates = Append(pre.oldStates, pre.state)
    ELSE IF last.op = "PopState" /\ err = NoErr
    THEN /\ pre.oldStates # <<>>
         /\ oldStates = SubSeq(pre.oldStates, 1, Len(pre.oldStates) - 1)
    ELSE oldStates = pre.oldStates

\* Two Triggers, A to B and back to A, are on the history.
C10_Witness ==
    /\ last.op = "Trigger"
    /\ oldStates = <<"A", "B">>
    /\ state = "A"

\* ---------------------------------------------------- claims, behavior tree
\* What a tick did, from the nodes before it (nodes), the nodes after it
\* (nodes') and the ids of the nodes whose Execute it invoked (ticked'.log).
IsTick == ticked'.op = "Execute"

Ran(n) == \E p \in 1..Len(ticked'.log) : ticked'.log[p] = n

PosOf(n) == CHOOSE p \in 1..Len(ticked'.log) : ticked'.log[p] = n

Open(n) == n.state # BNODE_STAT_SUCC /\ n.state # BNODE_STAT_FAIL

Kid(n, i) == nodes[n].subNodes[i]

KidIdx(n) == 1..Len(nodes[n].subNodes)

\* Positions of the children of n on which the tick invoked Execute.
RanKids(n) == {i \in KidIdx(n) : Ran(Kid(n, i))}

\* Positions of the children of n not completed before the tick.
OpenKids(n) == {i \in KidIdx(n) : Open(nodes[Kid(n, i)])}

\* The first of them, if any.
FirstOpen(n) == {i \in OpenKids(n) : \A j \in OpenKids(n) : i <= j}

\* The tick invoked Execute on n, a composite of the given type that was not
\* completed.
Entered(n, nodeType) ==
    /\ IsTick
    /\ nodes[n].nodeType = nodeType
    /\ Open(nodes[n])
    /\ Ran(n)

KidEnded(n, i, stat) == nodes'[Kid(n, i)].state = stat

\* The children the tick did not execute are as they were.
OthersKept(n) ==
    \A i \in KidIdx(n) \ RanKids(n) : nodes'[Kid(n, i)] = nodes[Kid(n, i)]

\* State of a sequence after a tick, from what became of the child it ran.
SequenceAfter(n) ==
    IF \E i \in RanKids(n) : KidEnded(n, i, BNODE_STAT_FAIL) THEN BNODE_STAT_FAIL
    ELSE IF \E i \in RanKids(n) :
                KidEnded(n, i, BNODE_STAT_SUCC) /\ i = Len(nodes[n].subNodes)
    THEN BNODE_STAT_SUCC
    ELSE BNODE_STAT_EXECUTING

\* A failed sequence stays failed and none of its children is executed.
FailedSequenceRests(n) ==
    (IsTick /\ nodes[n].nodeType = BNODE_TYPE_SEQUENCE /\ nodes[n].state = BNODE_STAT_FAIL)
        => /\ RanKids(n) = {}
           /\ nodes'[n].state = BNODE_STAT_FAIL

\* C5 as stated: each Execute on a non-completed Sequence calls Execute on
\* EXACTLY ONE child, the first one not completed, and on no other; after it
\* the Sequence is Failed if that child ended Failed, Succeeded if it ended
\* Succeeded and is the last child, Executing otherwise; a Failed Sequence
\* never executes a child again.
C5_ExactlyOneChild ==
    [][\A n \in DOMAIN nodes :
          /\ Entered(n, BNODE_TYPE_SEQUENCE)
                => /\ Cardinality(RanKids(n)) = 1
                   /\ RanKids(n) = FirstOpen(n)
                   /\ OthersKept(n)
                   /\ nodes'[n].state = SequenceAfter(n)
          /\ FailedSequenceRests(n)
      ]_vars

\* C5 (amended): each Execute on a non-completed Sequence calls Execute on
\* the first child that is not completed, if there is one, and on no other
\* child (the others keep their state); when the Sequence has no child that
\* is not completed, no child is executed.  After the call the Sequence is
\* Failed if the executed child ended Failed, Succeeded if it ended Succeeded
\* and is the last child, and Executing otherwise; once the Sequence is
\* Failed no child of it is executed again.
C5_FirstOpenChild ==
    [][\A n \in DOMAIN nodes :
          /\ Entered(n, BNODE_TYPE_SEQUENCE)
                => /\ RanKids(n) = FirstOpen(n)
                   /\ OthersKept(n)
                   /\ nodes'[n].state = SequenceAfter(n)
          /\ FailedSequenceRests(n)
      ]_vars

\* The second tick of a two-children sequence skipped the succeeded first
\* child and ran the second, which failed: the sequence is Failed.
C5_Witness ==
    /\ ticked.op = "Execute"
    /\ nodes[BTREE_ROOT_NODE_ID].nodeType = BNODE_TYPE_SEQUENCE
    /\ Len(nodes[BTREE_ROOT_NODE_ID].subNodes) = 2
    /\ ticked.log = <<BTREE_ROOT_NODE_ID, nodes[BTREE_ROOT_NODE_ID].subNodes[2]>>
    /\ nodes[nodes[BTREE_ROOT_NODE_ID].subNodes[1]].state = BNODE_STAT_SUCC
    /\ nodes[nodes[BTREE_ROOT_NODE_ID].subNodes[2]].state = BNODE_STAT_FAIL
    /\ nodes[BTREE_ROOT_NODE_ID].state = BNODE_STAT_FAIL

\* C6: each Execute on a non-completed Selector executes only the first
\* child that is not completed; if that child ends Succeeded the Selector is
\* Succeeded after the tick; a child that is not the last ending Failed
\* leaves the Selector Executing with the following child as the first one
\* not completed, which is the one the next tick executes; and a Selector
\* becomes Failed only in a tick in which its last child ends Failed.
C6_Selector ==
    [][\A n \in DOMAIN nodes :
          /\ Entered(n, BNODE_TYPE_SELECT)
                => /\ RanKids(n) = FirstOpen(n)
                   /\ OthersKept(n)
                   /\ \A i \in RanKids(n) :
                         /\ KidEnded(n, i, BNODE_STAT_SUCC)
                               => nodes'[n].state = BNODE_STAT_SUCC
                         /\ (KidEnded(n, i, BNODE_STAT_FAIL) /\ i < Len(nodes[n].subNodes))
                               => /\ nodes'[n].state = BNODE_STAT_EXECUTING
                                  /\ Open(nodes'[Kid(n, i + 1)])
                                  /\ \A j \in 1..i : ~Open(nodes'[Kid(n, j)])
          /\ (/\ nodes[n].nodeType = BNODE_TYPE_SELECT
              /\ n \in DOMAIN nodes'
              /\ nodes[n].state # BNODE_STAT_FAIL
              /\ nodes'[n].state = BNODE_STAT_FAIL)
                => /\ Entered(n, BNODE_TYPE_SELECT)
                   /\ Len(nodes[n].subNodes) \in RanKids(n)
                   /\ KidEnded(n, Len(nodes[n].subNodes), BNODE_STAT_FAIL)
      ]_vars

\* The first child of a two-children selector has just failed: the selector
\* is still Executing and its second child has not been executed.
C6_Witness ==
    /\ ticked.op = "Execute"
    /\ nodes[BTREE_ROOT_NODE_ID].nodeType = BNODE_TYPE_SELECT
    /\ Len(nodes[BTREE_ROOT_NODE_ID].subNodes) = 2
    /\ ticked.log = <<BTREE_ROOT_NODE_ID, nodes[BTREE_ROOT_NODE_ID].subNodes[1]>>
    /\ nodes[nodes[BTREE_ROOT_NODE_ID].subNodes[1]].state = BNODE_STAT_FAIL
    /\ nodes[nodes[BTREE_ROOT_NODE_ID].subNodes[2]].state = BNODE_STAT_NOT_EXECUTE
    /\ nodes[BTREE_ROOT_NODE_ID].state = BNODE_STAT_EXECUTING

\* The children a parallel tick must reach: those not completed before the
\* tick that come before, or are, the first one the tick leaves Failed.
ParallelReach(n) ==
    {i \in OpenKids(n) :
        \A j \in OpenKids(n) : j < i => ~KidEnded(n, j, BNODE_STAT_FAIL)}

\* C7: each Execute on a non-completed Parallel executes, in child order and
\* in the same tick, every child that is not completed until one of them
\* ends Failed; then the Parallel is Failed and no later child is executed in
\* that tick.  If no executed child ended Failed, the Parallel is Succeeded
\* after the tick exactly when every child is completed, Executing otherwise.
C7_Parallel ==
    [][\A n \in DOMAIN nodes :
          Entered(n, BNODE_TYPE_PARALLEL)
            => /\ RanKids(n) = ParallelReach(n)
               /\ OthersKept(n)
               /\ \A i, j \in RanKids(n) : i < j => PosOf(Kid(n, i)) < PosOf(Kid(n, j))
               /\ nodes'[n].state =
                     IF \E i \in RanKids(n) : KidEnded(n, i, BNODE_STAT_FAIL)
                     THEN BNODE_STAT_FAIL
                     ELSE IF \A i \in KidIdx(n) : ~Open(nodes'[Kid(n, i)])
                     THEN BNODE_STAT_SUCC
                     ELSE BNODE_STAT_EXECUTING
      ]_vars

\* A tick of a two-children parallel stopped at its first child, which
\* failed: the parallel is Failed and the second child was not executed.
C7_Witness ==
    /\ ticked.op = "Execute"
    /\ nodes[BTREE_ROOT_NODE_ID].nodeType = BNODE_TYPE_PARALLEL
    /\ Len(nodes[BTREE_ROOT_NODE_ID].subNodes) = 2
    /\ ticked.log = <<BTREE_ROOT_NODE_ID, nodes[BTREE_ROOT_NODE_ID].subNodes[1]>>
    /\ nodes[nodes[BTREE_ROOT_NODE_ID].subNodes[1]].state = BNODE_STAT_FAIL
    /\ nodes[nodes[BTREE_ROOT_NODE_ID].subNodes[2]].state = BNODE_STAT_NOT_EXECUTE
    /\ nodes[BTREE_ROOT_NODE_ID].state = BNODE_STAT_FAIL

\* C8: on a tree whose root is Succeeded or Failed, BehaviorTree.Execute
\* invokes no leaf handler (nor any Execute below the root) and leaves the
\* state and the step counter of every node as they were; the root is then
\* still completed, so this holds of any number of further calls.
C8_CompletionIsSticky ==
    [][(IsTick /\ ~Open(nodes[BTREE_ROOT_NODE_ID]))
            => /\ ticked'.log = <<BTREE_ROOT_NODE_ID>>
               /\ \A n \in DOMAIN nodes :
                     /\ n \in DOMAIN nodes'
                     /\ nodes'[n].state = nodes[n].state
                     /\ nodes'[n].step = nodes[n].step
      ]_vars

\* A completed root with a leaf that was never executed and a step counter
\* that has moved has been ticked a second time.
C8_Witness ==
    /\ ticked.op = "Execute"
    /\ ticked.turn = 1
    /\ ticked.log = <<BTREE_ROOT_NODE_ID>>
    /\ ~Open(nodes[BTREE_ROOT_NODE_ID])
    /\ \E n \in DOMAIN nodes :
          /\ nodes[n].nodeType = BNODE_TYPE_ACTION
          /\ nodes[n].state = BNODE_STAT_NOT_EXECUTE
    /\ \E n \in DOMAIN nodes : nodes[n].step > 0

\* ------------------------------------------------- claims, FSM (continued)
\* C11: the current state is empty until a Start call sets it; and when no
\* state is ever removed (Start, Trigger, PopState, Update, Stop and Add*
\* calls only), a non-empty current state names a registered state and never
\* becomes empty again.
C11_CurrentState ==
    [][/\ (state = "" /\ state' # "") => (last'.op = "Start" /\ err' = NoErr)
       /\ state' # "" => state' \in DOMAIN mapName2State'
       /\ state # "" => state' # ""
      ]_vars

\* A machine started in A has gone to B and come back to A by PopState.
C11_Witness ==
    /\ last.op = "PopState"
    /\ err = NoErr
    /\ pre.state = "B"
    /\ state = "A"
    /\ Registered("A")

\* The call left the machine as it was and invoked nothing.
Untouched ==
    /\ calls = <<>>
    /\ state = pre.state
    /\ oldStates = pre.oldStates

\* C12: Trigger reports the first precondition that fails, in this order:
\* ErrEvtEmpty for an empty event, else ErrNoFirstStat when no state is
\* current, else ErrTranNotExist when no record matches (current state,
\* event), else ErrFromStatNotExist when the current state is not registered,
\* else ErrToStatNotExist when the target of the matched record is not
\* registered; in each case no action and no hook is invoked and current
\* state and history are unchanged, and in no other case is one of these
\* errors returned.
C12_TriggerErrorOrder ==
    last.op = "Trigger" =>
        IF last.arg = ""
        THEN err = ErrEvtEmpty /\ Untouched
        ELSE IF pre.state = ""
        THEN err = ErrNoFirstStat /\ Untouched
        ELSE IF KeyIdx(pre.state, last.arg) = {}
        THEN err = ErrTranNotExist /\ Untouched
        ELSE IF ~Registered(pre.state)
        THEN err = ErrFromStatNotExist /\ Untouched
        ELSE IF \E i \in KeyIdx(pre.state, last.arg) :
                    IsFirstForKey(i) /\ ~Registered(transitions[i].To)
        THEN err = ErrToStatNotExist /\ Untouched
        ELSE err = NoErr

\* Trigger found a record for a current state that is no longer registered,
\* the record's target not being registered either.
C12_Witness ==
    /\ last.op = "Trigger"
    /\ last.arg = "e"
    /\ pre.state = "A"
    /\ DOMAIN mapName2State = {}
    /\ transitions = <<NewFSMTransition("A", "e", "B", "")>>
    /\ err = ErrFromStatNotExist

\* C13: PopState returns ErrNoOldStat on an empty history, else
\* ErrFromStatNotExist when the current state is not registered, else
\* ErrToStatNotExist when the state named on top of the history is not
\* registered; on each of these failures no hook is invoked, nothing is
\* popped and current state and history are unchanged; otherwise it succeeds.
C13_PopStateErrorOrder ==
    last.op = "PopState" =>
        IF pre.oldStates = <<>>
        THEN err = ErrNoOldStat /\ Untouched
        ELSE IF ~Registered(pre.state)
        THEN err = ErrFromStatNotExist /\ Untouched
        ELSE IF ~Registered(pre.oldStates[Len(pre.oldStates)])
        THEN err = ErrToStatNotExist /\ Untouched
        ELSE err = NoErr

\* PopState was called with neither the current state nor the top of the
\* history registered any more.
C13_Witness ==
    /\ last.op = "PopState"
    /\ pre.state = "B"
    /\ pre.oldStates = <<"A">>
    /\ DOMAIN mapName2State = {}
    /\ err = ErrFromStatNotExist
    /\ oldStates = <<"A">>

\* The last call was Start(name) for a non-empty name that is not registered.
StartedUnregistered ==
    /\ last.op = "Start"
    /\ last.arg # ""
    /\ ~Registered(last.arg)

\* C14 as stated: Start(name) with a non-empty name that is not registered
\* returns no error, invokes no hook and leaves the machine with NO current
\* state, in every reachable state in which Start is called.
C14_NoCurrentState ==
    StartedUnregistered
        => /\ err = NoErr
           /\ calls = <<>>
           /\ state = ""

\* C14 (amended): Start(name) with a non-empty name that is not registered
\* returns no error, invokes no hook and leaves the current state and the
\* history as they were before the call (so the machine has no current state
\* afterwards exactly when it had none before).
C14_StartUnregistered ==
    StartedUnregistered
        => /\ err = NoErr
           /\ calls = <<>>
           /\ state = pre.state
           /\ oldStates = pre.oldStates

\* Start("B"), B not registered, was called on a machine that had gone from
\* B to A: A is still current.
C14_Witness ==
    /\ StartedUnregistered
    /\ last.arg = "B"
    /\ pre.state = "A"
    /\ pre.oldStates = <<"B">>
    /\ state = "A"

\* C15: Stop() invokes OnExit("") of the current state exactly once when a
\* current state exists (one is set and registered) and nothing otherwise;
\* it returns nothing and writes no field of the machine: current state,
\* history, registrations and transitions are those before the call, so any
\* Update or Trigger after it finds the machine it would have found before.
C15_Stop ==
    [][last'.op = "Stop"
            => /\ calls' = IF state # "" /\ Registered(state)
                           THEN <<HookCall(mapName2State[state], "OnExit", "")>>
                           ELSE <<>>
               /\ err' = NoErr
               /\ UNCHANGED fsmVars
      ]_vars

\* Stop was called in state B with A on the history: both are as they were.
C15_Witness ==
    /\ last.op = "Stop"
    /\ calls = <<HookCall("sB", "OnExit", "")>>
    /\ pre.state = "B"
    /\ state = "B"
    /\ oldStates = <<"A">>

\* ------------------------------------------- claims, behavior tree (continued)
\* C16: Execute on a leaf that is not completed invokes the handler exactly
\* once and the leaf's state becomes what the handler returned; Execute on a
\* leaf that is already Succeeded or Failed does not invoke the handler and
\* does not change the leaf's state.
C16_LeafExecute ==
    [][ticked'.op = "LeafExecute"
            => IF Open(nodes[ticked'.node])
               THEN /\ Len(ticked'.handled) = 1
                    /\ nodes'[ticked'.node].state = ticked'.handled[1]
               ELSE /\ ticked'.handled = <<>>
                    /\ nodes'[ticked'.node].state = nodes[ticked'.node].state
      ]_vars

\* ------------------------------------------------- claims, FSM registration
\* C17 as stated: AddTransition fails with an error kind of its own for an
\* empty from (EmptyFrom), with EmptyEvent for an empty event and with an
\* error kind of its own for an empty to (EmptyTo), appending nothing;
\* otherwise it succeeds and appends exactly one record at the end.
C17_OwnErrorKinds ==
    [][last'.op = "AddTransition"
            => LET a == last'.tran
                   EmptyFrom == "from is empty"
                   EmptyTo == "to is empty"
               IN IF a.From = "" \/ a.Event = "" \/ a.To = ""
                  THEN /\ a.From = "" => err' = EmptyFrom
                       /\ (a.From # "" /\ a.Event = "") => err' = ErrEvtEmpty
                       /\ (a.From # "" /\ a.Event # "") => err' = EmptyTo
                       /\ transitions' = transitions
                  ELSE /\ err' = NoErr
                       /\ transitions' = Append(transitions, a)
      ]_vars

\* C17, amended: AddTransition returns ErrFromStatNotExist for an empty from,
\* else ErrEvtEmpty for an empty event, else ErrToStatNotExist for an empty to,
\* appending nothing; otherwise it succeeds, for any action and whether or not
\* from and to are registered, and appends exactly one record at the end.
C17_AddTransition ==
    [][last'.op = "AddTransition"
            => LET a == last'.tran
               IN IF a.From = ""
                  THEN err' = ErrFromStatNotExist /\ UNCHANGED fsmVars
                  ELSE IF a.Event = ""
                  THEN err' = ErrEvtEmpty /\ UNCHANGED fsmVars
                  ELSE IF a.To = ""
                  THEN err' = ErrToStatNotExist /\ UNCHANGED fsmVars
                  ELSE /\ err' = NoErr
                       /\ transitions' = Append(transitions, a)
                       /\ UNCHANGED <<state, oldStates, mapName2State, mapName2Action>>
      ]_vars

\* An AddTransition between two unregistered states, without action, has
\* succeeded behind an earlier record; and one with an empty to has failed.
C17_Witness ==
    /\ last.op = "AddTransition"
    /\ err = NoErr
    /\ Len(transitions) = 2
    /\ last.tran = [From |-> "A", Event |-> "e", To |-> "B", Action |-> ""]
    /\ transitions[2] = last.tran
    /\ ~Registered("A")
    /\ ~Registered("B")

\* --------------------------------------------------- claims, FSM callbacks
\* C18: every OnExit and OnEnter invoked by Trigger or PopState finds
\* GetCurState() still the state being exited and the history still the stack
\* of before the call; the OnEnter("") invoked by Start finds GetCurState()
\* already the state started.
C18_HooksBeforeCommit ==
    /\ Len(seen) = Len(calls)
    /\ last.op \in {"Trigger", "PopState"}
            => \A i \in 1..Len(calls) :
                    IsHook(calls[i])
                        => /\ seen[i].state = pre.state
                           /\ seen[i].oldStates = pre.oldStates
    /\ last.op = "Start"
            => \A i \in 1..Len(calls) :
                    IsHook(calls[i])
                        => /\ seen[i].state = last.arg
                           /\ seen[i].state = state

\* Trigger has moved the machine from A to B: both hooks ran, and the state
\* and the history they found are no longer those of the machine.
C18_Witness ==
    /\ last.op = "Trigger"
    /\ Len(HooksOf(calls)) = 2
    /\ pre.state = "A"
    /\ state = "B"
    /\ oldStates # pre.oldStates
    /\ \A i \in 1..Len(calls) : seen[i].state = "A"

\* ------------------------------------------- claims, behavior tree: progress
\* C19: a tree in which every composite has a child, ticked from its
\* construction with no child added or removed and every handler answering
\* Succeeded or Failed, has a completed root once it has been ticked as many
\* times as it has leaves.
C19_CompletesWithinLeaves ==
    (/\ ticked.op = "Run"
     /\ NoneChildless(nodes)
     /\ ticked.count >= Cardinality(AllLeaves(nodes)))
        => IsCompleted(nodes[BTREE_ROOT_NODE_ID])

\* A sequence of two leaves has succeeded on its second tick, which is the
\* earliest it can.
C19_Witness ==
    /\ ticked.op = "Run"
    /\ ticked.count = 2
    /\ nodes[BTREE_ROOT_NODE_ID].nodeType = BNODE_TYPE_SEQUENCE
    /\ Len(nodes[BTREE_ROOT_NODE_ID].subNodes) = 2
    /\ Cardinality(AllLeaves(nodes)) = 2
    /\ \A id \in AllLeaves(nodes) : nodes[id].state = BNODE_STAT_SUCC
    /\ nodes[BTREE_ROOT_NODE_ID].state = BNODE_STAT_SUCC

\* ------------------------------------- claims, behavior tree: no children
\* C20: Execute on a Sequence or a Selector that has no children and is not
\* completed leaves it Executing, on the first call and on every later one;
\* Execute on a Parallel that has no children and is not completed makes it
\* Succeeded.
C20_Childless ==
    [][\A n \in DOMAIN nodes :
            /\ (/\ Entered(n, BNODE_TYPE_SEQUENCE) \/ Entered(n, BNODE_TYPE_SELECT)
                /\ nodes[n].subNodes = <<>>)
                    => nodes'[n].state = BNODE_STAT_EXECUTING
            /\ (/\ Entered(n, BNODE_TYPE_PARALLEL)
                /\ nodes[n].subNodes = <<>>)
                    => nodes'[n].state = BNODE_STAT_SUCC
      ]_vars

\* A sequence has been ticked twice: its first child, a Parallel without
\* children, succeeded on the first tick; its second, a Selector without
\* children, is executing, and so is the sequence.
C20_Witness ==
    /\ ticked.op = "Execute"
    /\ ticked.turn = 1
    /\ Len(nodes[BTREE_ROOT_NODE_ID].subNodes) = 2
    /\ LET par == nodes[nodes[BTREE_ROOT_NODE_ID].subNodes[1]]
           sel == nodes[nodes[BTREE_ROOT_NODE_ID].subNodes[2]]
       IN /\ par.nodeType = BNODE_TYPE_PARALLEL
          /\ par.subNodes = <<>>
          /\ par.state = BNODE_STAT_SUCC
          /\ sel.nodeType = BNODE_TYPE_SELECT
          /\ sel.subNodes = <<>>
          /\ sel.state = BNODE_STAT_EXECUTING
    /\ nodes[BTREE_ROOT_NODE_ID].nodeType = BNODE_TYPE_SEQUENCE
    /\ nodes[BTREE_ROOT_NODE_ID].state = BNODE_STAT_EXECUTING

\* ------------------------------------------- claims, behavior tree: outcomes
\* The states of the children of n, in order.
KidStates(n) == [i \in KidIdx(n) |-> nodes[Kid(n, i)].state]

\* The completed children of n are its first ones.
CompletedPrefix(n) ==
    \A i, j \in KidIdx(n) :
        (i < j /\ IsCompleted(nodes[Kid(n, j)])) => IsCompleted(nodes[Kid(n, i)])

\* C21: in a tree ticked only from its root, no child added or removed since
\* the first tick, a Succeeded Sequence has all children Succeeded, a Failed
\* Selector has all children Failed, a Succeeded Parallel has all children
\* Succeeded, and the completed children of a Sequence or Selector form a
\* prefix of its child list.
C21_OutcomeConsistency ==
    \A n \in DOMAIN nodes :
        /\ (nodes[n].nodeType = BNODE_TYPE_SEQUENCE /\ nodes[n].state = BNODE_STAT_SUCC)
                => \A i \in KidIdx(n) : KidStates(n)[i] = BNODE_STAT_SUCC
        /\ (nodes[n].nodeType = BNODE_TYPE_SELECT /\ nodes[n].state = BNODE_STAT_FAIL)
                => \A i \in KidIdx(n) : KidStates(n)[i] = BNODE_STAT_FAIL
        /\ (nodes[n].nodeType = BNODE_TYPE_PARALLEL /\ nodes[n].state = BNODE_STAT_SUCC)
                => \A i \in KidIdx(n) : KidStates(n)[i] = BNODE_STAT_SUCC
        /\ nodes[n].nodeType \in {BNODE_TYPE_SEQUENCE, BNODE_TYPE_SELECT}
                => CompletedPrefix(n)

\* A sequence of two leaves has succeeded, over two ticks.
C21_Witness ==
    /\ ticked.op = "Execute"
    /\ nodes[BTREE_ROOT_NODE_ID].nodeType = BNODE_TYPE_SEQUENCE
    /\ nodes[BTREE_ROOT_NODE_ID].state = BNODE_STAT_SUCC
    /\ Len(nodes[BTREE_ROOT_NODE_ID].subNodes) = 2
    /\ KidStates(BTREE_ROOT_NODE_ID) = <<BNODE_STAT_SUCC, BNODE_STAT_SUCC>>
    /\ \A i \in KidIdx(BTREE_ROOT_NODE_ID) :
            nodes[Kid(BTREE_ROOT_NODE_ID, i)].nodeType = BNODE_TYPE_ACTION

\* ------------------------------------------------------ claims, FSM restart
\* Start has just made a registered state current in a machine that had a
\* current state already.
Restarted ==
    /\ last.op = "Start"
    /\ pre.state # ""
    /\ err = NoErr
    /\ calls # <<>>

\* C22: Start(name) with a registered name on a machine that has a current
\* state makes name current and invokes name's OnEnter("") and nothing else
\* (no OnExit of the previous state), leaving the history as it was; a
\* PopState that follows and succeeds returns to the state on top of the
\* history of before the restart, which it removes.
C22_Restart ==
    [][/\ (last'.op = "Start" /\ state # "" /\ last'.arg # "" /\ Registered(last'.arg))
            => /\ err' = NoErr
               /\ state' = last'.arg
               /\ calls' = <<HookCall(mapName2State[last'.arg], "OnEnter", "")>>
               /\ oldStates' = oldStates
       /\ (Restarted /\ last'.op = "PopState" /\ err' = NoErr)
            => /\ pre.oldStates # <<>>
               /\ state' = pre.oldStates[Len(pre.oldStates)]
               /\ oldStates' = SubSeq(pre.oldStates, 1, Len(pre.oldStates) - 1)
      ]_vars

\* The machine went from A to B, was started again in A, and PopState has
\* taken it back to the A recorded before the restart.
C22_Witness ==
    /\ last.op = "PopState"
    /\ err = NoErr
    /\ pre.state = "A"
    /\ pre.oldStates = <<"A">>
    /\ state = "A"
    /\ oldStates = <<>>

\* ------------------------------------------------------------ claims, agent
\* C23: after a BaseAgent.Update, the current state being one registered
\* through BaseAgent.AddState with a behavior tree: if it was registered with
\* no update function, the update executed the tree exactly once; if with an
\* update function, the update called that function, once, and did not
\* execute the tree.
C23_UpdateDrivesTree ==
    (/\ updated.op = "Update"
     /\ Registered(state)
     /\ state \in DOMAIN mapState2BTree
     /\ mapState2BTree[state] = TheTree)
        => IF mapState2UpdateFunc[state] = Nil
           THEN /\ updated.execs = 1
                /\ updated.funcs = <<>>
                /\ ~updated.panic
           ELSE /\ Len(updated.funcs) = 1
                /\ updated.execs = 0
                /\ ~updated.panic

============================================================================
